---- MODULE Spec2Model ----
(***************************************************************************)
(* A model of NestedComponent (src/components/nested/NestedComponent.js),  *)
(* the composite container of the form renderer.                           *)
(*                                                                         *)
(* The object heap is a sequence of instance records; an instance's id is  *)
(* its index in the heap and 0 (NULL) stands for null.  A container's      *)
(* `components` array is the sequence of the ids of its children.  Every   *)
(* method of the class is an operator that takes the running state         *)
(*   st = [heap, log, comp, env]                                           *)
(* and returns the state after the call (with the returned value, when it  *)
(* has one, as [st, ret]): `log` is the sequence of observable events of   *)
(* the running operation (calls made on children, callback invocations),   *)
(* `env` holds what the external collaborators answer.  A method whose     *)
(* body goes on after a call is written as the call handed to an operator  *)
(* for the rest of the body.  JavaScript runs one handler at a time, so    *)
(* one public call is one action.                                          *)
(***************************************************************************)
EXTENDS Integers, Sequences, FiniteSets, TLC

VARIABLES heap, old, options, data, op, in, out, log

vars == <<heap, old, options, data, op, in, out, log>>

NULL == 0
ROOT == 1

(***************************************************************************)
(* Bounds of the model.                                                    *)
(***************************************************************************)
MaxDepth == 2         \* nesting depth of the schemas (children are depth 1)
MaxNodesTree == 4     \* schema nodes below the root, traversal specification
MaxNodesRemove == 3   \* schema nodes below the root, removal specification
MaxNodesValue == 3    \* schema nodes below the root, value specification
MaxNodesValid == 3    \* schema nodes below the root, validity specification
MaxNodesBuild == 2    \* schema nodes below the root, construction specification
MaxNodesAdd == 1      \* schema nodes below the root, addition specification
MaxNodesHide == 2     \* schema nodes below the root, visibility specification
MaxNodesReset == 2    \* schema nodes below the root, reset specification
MaxNodesJoin == 3     \* schema nodes below the root, join specification
MaxNodesCheck == 2    \* schema nodes below the root, checkData specification
MaxInstances == 4     \* addComponent is called while fewer instances exist

Keys == {"a", "b"}
NoKey == "z"          \* a key no schema uses

(***************************************************************************)
(* Schema nodes: key, type ("components" for a nested container, "button", *)
(* or a leaf kind), internal, hidden, and the nested components.           *)
(***************************************************************************)
Leaf(k, t, i, hd) ==
  [key |-> k, type |-> t, internal |-> i, hidden |-> hd, components |-> <<>>]

Container(k, kids) ==
  [key |-> k, type |-> "components", internal |-> FALSE, hidden |-> FALSE,
   components |-> kids]

RECURSIVE ForestX(_, _, _)
RECURSIVE NodeX(_, _, _)
\* The sequences of schema nodes of exactly m nodes in all, nested at most d deep,
\* with leaves from L.
ForestX(m, d, L) ==
  IF m = 0 THEN {<<>>}
  ELSE UNION {{<<nd>> \o rest : nd \in NodeX(k, d, L), rest \in ForestX(m - k, d, L)} :
              k \in 1..m}

\* The schema nodes of exactly k nodes in all (themselves included).
NodeX(k, d, L) ==
  (IF k = 1 THEN L ELSE {})
  \cup (IF d >= 2
        THEN {Container(key, kids) : key \in Keys, kids \in ForestX(k - 1, d - 1, L)}
        ELSE {})

Forests(n, L) == UNION {ForestX(m, MaxDepth, L) : m \in 0..n}

RootSchema(kids) == Container("root", kids)

TextLeaves == {Leaf(k, "textfield", FALSE, FALSE) : k \in Keys}
TypedLeaves == {Leaf(k, t, FALSE, FALSE) : k \in Keys, t \in {"textfield", "button"}}
FlaggedLeaves == {Leaf(k, "textfield", i, hd) : k \in Keys, i \in BOOLEAN, hd \in BOOLEAN}

(***************************************************************************)
(* Instances.                                                              *)
(***************************************************************************)
\* Components.create and the constructors: a fresh instance of the schema.
\* A nested container starts with components = [] and hidden = [].
NewInstance(component) ==
  [component |-> component,
   key |-> component.key,
   type |-> component.type,
   components |-> <<>>,
   hidden |-> {},
   parent |-> NULL,
   root |-> NULL,
   isBuilt |-> FALSE,
   destroyed |-> 0,
   visible |-> TRUE,
   element |-> FALSE,
   attached |-> FALSE,
   pristine |-> TRUE,
   handle |-> "none"]

\* typeof component.everyComponent === 'function', component.getAllComponents
IsNested(inst) == inst.type = "components"

\* The running state of one public call.  env: the keys of the children that
\* produce no element and of those whose conditionallyVisible() is false, and the
\* options object shared by the whole tree.  comp: a closure's `let comp`.
St(h, noElement, condFalse, opts) ==
  [heap |-> h, log |-> <<>>, comp |-> NULL,
   env |-> [noElement |-> noElement, condFalse |-> condFalse, options |-> opts]]

Logged(st, e) == [st EXCEPT !.log = Append(@, e)]

Ev(name, id, by) == [ev |-> name, id |-> id, by |-> by]

SeqToSet(s) == {s[i] : i \in 1..Len(s)}

\* _.findIndex(array, {id}): the first position holding id, 0 when there is none
FindIndex(s, id) ==
  IF \E i \in 1..Len(s) : s[i] = id
  THEN CHOOSE i \in 1..Len(s) : s[i] = id /\ \A j \in 1..(i - 1) : s[j] # id
  ELSE 0

\* A variant that inserts after the position.
MutInsertAt(s, i, x) == SubSeq(s, 1, i) \o <<x>> \o SubSeq(s, i + 1, Len(s))

\* array.splice(index, 0, x), index counted from 1
InsertAt(s, i, x) == SubSeq(s, 1, i - 1) \o <<x>> \o SubSeq(s, i, Len(s))

\* _.remove(array, {id})
RemoveId(s, id) == SelectSeq(s, LAMBDA x : x # id)

(***************************************************************************)
(* Visibility cascade.                                                     *)
(***************************************************************************)
RECURSIVE setHidden(_, _, _)
RECURSIVE hideLoop(_, _, _)

\* this.eachComponent((component) => this.setHidden(component)) from child i on
hideLoop(st, c, i) ==
  IF i > Len(st.heap[c].components) THEN st
  ELSE hideLoop(setHidden(st, c, st.heap[c].components[i]), c, i + 1)

hideComponents(st, c, hidden) ==
  hideLoop([st EXCEPT !.heap[c].hidden = hidden], c, 1)

\* A variant that does not look at the container's hidden set.
MutHiddenDecision(st, c, component) ==
  IF Len(st.heap[component].components) > 0 THEN "cascade"
  ELSE IF st.heap[component].component.hidden THEN "hide"
  ELSE IF st.heap[component].key \in st.env.condFalse THEN "hide"
  ELSE "leave"

\* The branch setHidden takes for the child: "cascade", "hide" or "leave".
HiddenDecision(st, c, component) ==
  IF Len(st.heap[component].components) > 0 THEN "cascade"
  ELSE IF st.heap[component].component.hidden THEN "hide"
  ELSE IF st.heap[component].key \in st.heap[c].hidden THEN "hide"
  ELSE IF st.heap[component].key \in st.env.condFalse THEN "hide"
  ELSE "leave"

\* A variant that shows the child again when no rule hides it.
MutSetHidden(st, c, component) ==
  CASE HiddenDecision(st, c, component) = "cascade" ->
         hideComponents([st EXCEPT !.log = Append(@, Ev("setHidden", component, c))],
                        component, st.heap[c].hidden)
    [] OTHER ->
         [st EXCEPT !.log = Append(@, Ev("setHidden", component, c)),
                    !.heap[component].visible = (HiddenDecision(st, c, component) = "leave")]

setHidden(st, c, component) ==
  CASE HiddenDecision(st, c, component) = "cascade" ->
         hideComponents([st EXCEPT !.log = Append(@, Ev("setHidden", component, c))],
                        component, st.heap[c].hidden)
    [] HiddenDecision(st, c, component) = "hide" ->
         [st EXCEPT !.log = Append(@, Ev("setHidden", component, c)),
                    !.heap[component].visible = FALSE]
    [] OTHER -> [st EXCEPT !.log = Append(@, Ev("setHidden", component, c))]

(***************************************************************************)
(* Child creation.                                                         *)
(***************************************************************************)
RECURSIVE createComponent(_, _, _, _)
RECURSIVE addComponent(_, _, _, _, _)
RECURSIVE addLoop(_, _, _, _)
RECURSIVE addComponents(_, _)
RECURSIVE build(_, _)

\* comp.build(): a nested container creates its element and adds its children; a
\* leaf (external) builds its own element, or none.
build(st, c) ==
  IF IsNested(st.heap[c])
  THEN addComponents([st EXCEPT !.log = Append(@, Ev("build", c, st.heap[c].parent)),
                                !.heap[c].element = TRUE], c)
  ELSE [st EXCEPT !.log = Append(@, Ev("build", c, st.heap[c].parent)),
                  !.heap[c].element = (st.heap[c].key \notin st.env.noElement)]

\* A variant that takes the creating container for the root.
MutCreated(st, c, component) ==
  [st EXCEPT !.heap = Append(@, [NewInstance(component) EXCEPT !.parent = c, !.root = c]),
             !.log = Append(@, Ev("create", Len(st.heap) + 1, c))]

\* Components.create(...), comp.parent = this, comp.root = this.root || this.
\* The new instance's id is Len(st.heap) + 1.
Created(st, c, component) ==
  [st EXCEPT !.heap = Append(@, [NewInstance(component) EXCEPT
                                   !.parent = c,
                                   !.root = IF st.heap[c].root # NULL
                                            THEN st.heap[c].root ELSE c]),
             !.log = Append(@, Ev("create", Len(st.heap) + 1, c))]

\* A variant that puts the new child first.
MutInserted(components, comp, before) == <<comp>> \o components

\* this.components after the insertion of comp: before the child `before` when it
\* is given and found, at the end otherwise.
Inserted(components, comp, before) ==
  IF before # NULL /\ FindIndex(components, before) # 0
  THEN InsertAt(components, FindIndex(components, before), comp)
  ELSE Append(components, comp)

\* createComponent after comp.build(): comp.isBuilt = true, then the insertion
\* unless the schema is internal.
AfterBuild(st, c, comp, component, before) ==
  IF component.internal
  THEN [st |-> [st EXCEPT !.heap[comp].isBuilt = TRUE,
                          !.log = Append(@, Ev("built", comp, c))],
        ret |-> comp]
  ELSE [st |-> [st EXCEPT !.heap[comp].isBuilt = TRUE,
                          !.heap[c].components = Inserted(@, comp, before),
                          !.log = Append(@, Ev("built", comp, c)) \o
                                  <<Ev("insert", comp, c)>>],
        ret |-> comp]

\* `before` is a component id or NULL.
createComponent(st, c, component, before) ==
  AfterBuild(build(Created(st, c, component), Len(st.heap) + 1),
             c, Len(st.heap) + 1, component, before)

\* A variant without the early returns: the cascade is applied on every path.
MutAfterCreate(r, c, noAdd) ==
  [r EXCEPT !.st = setHidden(r.st, c, r.ret)]

\* addComponent after createComponent returned r.ret: the early returns, the
\* attachment and the visibility cascade.
AfterCreate(r, c, noAdd) ==
  IF noAdd THEN r
  ELSE IF ~r.st.heap[r.ret].element
  THEN [r EXCEPT !.st.log = Append(@, Ev("warn", r.ret, c))]
  ELSE [r EXCEPT !.st = setHidden([r.st EXCEPT !.heap[r.ret].attached = TRUE], c, r.ret)]

\* `before` is the DOM element the child goes before: [given, component], where
\* component is the instance the element belongs to (NULL: none).
addComponent(st, c, component, before, noAdd) ==
  AfterCreate(createComponent(st, c, component,
                              IF before.given THEN before.component ELSE NULL),
              c, noAdd)

NoBefore == [given |-> FALSE, component |-> NULL]

\* components.forEach((component) => this.addComponent(component, element, data))
addLoop(st, c, components, i) ==
  IF i > Len(components) THEN st
  ELSE addLoop(addComponent(st, c, components[i], NoBefore, FALSE).st, c, components, i + 1)

\* st.env.options is the options object shared by the whole tree.
addComponents(st, c) ==
  IF st.env.options.hasComponents
  THEN [st EXCEPT !.heap[c].components = st.env.options.components]
  ELSE addLoop(st, c, st.heap[c].component.components, 1)

(***************************************************************************)
(* Destruction and removal.                                                *)
(***************************************************************************)
RECURSIVE destroy(_, _)
RECURSIVE removeComponent(_, _, _)
RECURSIVE destroyLoop(_, _, _, _)

\* A variant that ignores the collection it is given and removes from the
\* collection of the root.
MutAfterDestroy(st, component, owner) ==
  [st EXCEPT !.heap[component].attached = FALSE,
             !.heap[ROOT].components = RemoveId(@, component)]

\* removeComponent after component.destroy(): the element leaves its parent node,
\* then _.remove(components, {id}).
AfterDestroy(st, component, owner) ==
  [st EXCEPT !.heap[component].attached = FALSE,
             !.heap[owner].components = RemoveId(@, component)]

\* removeComponent(component, components): `components` is the collection of the
\* container `owner`.
removeComponent(st, component, owner) ==
  AfterDestroy(destroy(st, component), component, owner)

\* A variant that walks the live collection, which removeComponent shrinks.
MutDestroyLoop(st, c, snapshot, i) ==
  IF i > Len(st.heap[c].components) THEN st
  ELSE destroyLoop(removeComponent(st, st.heap[c].components[i], c), c, snapshot, i + 1)

\* components.forEach((comp) => this.removeComponent(comp, this.components)) over
\* the snapshot
destroyLoop(st, c, snapshot, i) ==
  IF i > Len(snapshot) THEN st
  ELSE destroyLoop(removeComponent(st, snapshot[i], c), c, snapshot, i + 1)

\* this.components = []; this.hidden = []
Emptied(st, c) == [st EXCEPT !.heap[c].components = <<>>, !.heap[c].hidden = {}]

destroyComponents(st, c) ==
  Emptied(destroyLoop(st, c, st.heap[c].components, 1), c)

\* super.destroy(all), then for a nested container destroyComponents()
destroy(st, c) ==
  IF IsNested(st.heap[c])
  THEN destroyComponents([st EXCEPT !.heap[c].destroyed = @ + 1,
                                    !.log = Append(@, Ev("destroy", c, st.heap[c].parent))],
                         c)
  ELSE [st EXCEPT !.heap[c].destroyed = @ + 1,
                  !.log = Append(@, Ev("destroy", c, st.heap[c].parent))]

(***************************************************************************)
(* Traversal.  A visitor is a record: the closure of getComponent or of    *)
(* getComponentById with the caller's callback, or a probe that returns a  *)
(* prescribed value for every instance.  A returned value is one of        *)
(* "false", "undefined", "null", "zero", "true".                           *)
(***************************************************************************)
NoCallback == [kind |-> "none", user |-> FALSE]
UserCallback == [kind |-> "user", user |-> TRUE]
\* the closure removeComponentByKey / removeComponentById hands to the lookup
RemoveCallback(user) == [kind |-> "remove", user |-> user]

\* fn(component, components) of the lookups: the caller's callback, or the closure
\* of the removals (removeComponent, then the caller's callback if there is one)
CallCallback(st, cb, component, owner) ==
  IF cb.kind = "remove"
  THEN IF cb.user
       THEN Logged(removeComponent(st, component, owner), Ev("cb", component, owner))
       ELSE removeComponent(st, component, owner)
  ELSE Logged(st, Ev("cb", component, owner))

\* Whether the closure of a lookup matches the component.
Matches(st, fn, component) ==
  IF fn.kind = "getComponent" THEN st.heap[component].component.key = fn.key
  ELSE component = fn.id

\* The visitor called as fn(component, components, index).
CallFn(st, fn, component, owner, index) ==
  IF fn.kind = "probe"
  THEN [st |-> Logged(st, Ev("visit", component, owner)), ret |-> fn.ret[component]]
  ELSE IF ~Matches(st, fn, component)
  THEN [st |-> Logged(st, Ev("visit", component, owner)), ret |-> "undefined"]
  ELSE IF fn.fn.kind = "none"
  THEN [st |-> [st EXCEPT !.comp = component,
                          !.log = Append(@, Ev("visit", component, owner))],
        ret |-> "false"]
  ELSE [st |-> CallCallback([st EXCEPT !.comp = component,
                                       !.log = Append(@, Ev("visit", component, owner))],
                            fn.fn, component, owner),
        ret |-> "false"]

RECURSIVE everyComponent(_, _, _)
RECURSIVE everyLoop(_, _, _, _, _)
RECURSIVE AfterFn(_, _, _, _, _, _)
RECURSIVE AfterDescent(_, _, _, _, _)

\* A variant that returns false when its loop was stopped.
MutEveryComponentResult(stopped) == IF stopped THEN "false" ELSE "undefined"

\* The value of the call component.everyComponent(fn): the function has no return
\* statement.
EveryComponentResult(stopped) == "undefined"

\* _.each(components, ...) of everyComponent from index i on; _.each reads the
\* length once and stops when the iteratee returns exactly false.
everyLoop(st, c, i, length, fn) ==
  IF i > length THEN [st |-> st, stopped |-> FALSE]
  ELSE AfterFn(CallFn(st, fn, st.heap[c].components[i], c, i),
               st.heap[c].components[i], c, i, length, fn)

\* The iteratee after fn(component, components, index) returned r.ret.
AfterFn(r, component, c, i, length, fn) ==
  IF r.ret = "false" THEN [st |-> r.st, stopped |-> TRUE]
  ELSE IF IsNested(r.st.heap[component])
  THEN AfterDescent(everyComponent(r.st, component, fn), c, i, length, fn)
  ELSE everyLoop(r.st, c, i + 1, length, fn)

\* The iteratee after component.everyComponent(fn) returned r.ret.
AfterDescent(r, c, i, length, fn) ==
  IF r.ret = "false" THEN [st |-> r.st, stopped |-> TRUE]
  ELSE everyLoop(r.st, c, i + 1, length, fn)

EveryReturn(r) == [st |-> r.st, ret |-> EveryComponentResult(r.stopped)]

everyComponent(st, c, fn) ==
  EveryReturn(everyLoop(st, c, 1, Len(st.heap[c].components), fn))

RECURSIVE eachLoop(_, _, _, _, _)
RECURSIVE AfterEachFn(_, _, _, _, _)
\* _.each(this.getComponents(), ...) of eachComponent; the visitor is called as
\* fn(component, index).
eachLoop(st, c, i, length, fn) ==
  IF i > length THEN st
  ELSE AfterEachFn(CallFn(st, fn, st.heap[c].components[i], c, i), c, i, length, fn)

AfterEachFn(r, c, i, length, fn) ==
  IF r.ret = "false" THEN r.st ELSE eachLoop(r.st, c, i + 1, length, fn)

eachComponent(st, c, fn) == eachLoop(st, c, 1, Len(st.heap[c].components), fn)

\* return comp
ReturnComp(r) == [st |-> r.st, ret |-> r.st.comp]

getComponent(st, c, key, fn) ==
  ReturnComp(everyComponent([st EXCEPT !.comp = NULL], c,
                            [kind |-> "getComponent", key |-> key, fn |-> fn]))

getComponentById(st, c, id, fn) ==
  ReturnComp(everyComponent([st EXCEPT !.comp = NULL], c,
                            [kind |-> "getComponentById", id |-> id, fn |-> fn]))

\* After the lookup of removeComponentByKey / removeComponentById: a miss calls
\* fn(null) and returns null; a hit falls off the end of the function.
RemoveResult(r, user) ==
  IF r.ret = NULL
  THEN [st |-> IF user THEN Logged(r.st, Ev("cb", NULL, NULL)) ELSE r.st, ret |-> "null"]
  ELSE [st |-> r.st, ret |-> "undefined"]

removeComponentByKey(st, c, key, user) ==
  RemoveResult(getComponent(st, c, key, RemoveCallback(user)), user)

removeComponentById(st, c, id, user) ==
  RemoveResult(getComponentById(st, c, id, RemoveCallback(user)), user)

(***************************************************************************)
(* Value propagation.  A value is [truthy, obj]: obj maps the keys the     *)
(* value has to their sub-values.  The running state carries `flags`, the  *)
(* flags object of the running setValue, and in env `changes`, the leaves  *)
(* whose own setValue reports a change, and `freshFlags`, whether getFlags *)
(* (Base) answers a new object or the caller's.                            *)
(***************************************************************************)
RECURSIVE setValue(_, _, _)
RECURSIVE setNestedValue(_, _, _, _)
RECURSIVE setLoop(_, _, _, _, _)
RECURSIVE Accumulated(_, _, _, _)

ValueSt(h, noValidate, changes, freshFlags) ==
  [heap |-> h, log |-> <<>>, flags |-> [noValidate |-> noValidate],
   env |-> [changes |-> changes, freshFlags |-> freshFlags]]

Arg(kind, v) == [kind |-> kind, v |-> v]

\* A variant that treats no child as a button.
MutIsButton(inst) == FALSE

\* component.type === 'button'
IsButton(inst) == inst.type = "button"

\* component.hasValue(value): _.has(value, key)
HasValue(inst, value) == inst.key \in DOMAIN value.obj

\* component.defaultValue, one per instance
DefaultValue(component) == component

\* component.setValue(arg, flags) on a leaf (external): the call as the leaf sees
\* it, and whether it reports a change
LeafSetValue(st, component, arg) ==
  [st |-> [st EXCEPT !.log = Append(@, [ev |-> "setValue", id |-> component, arg |-> arg,
                                         noValidate |-> st.flags.noValidate])
                             \o <<[ev |-> "return", id |-> component,
                                   ret |-> component \in st.env.changes]>>],
   ret |-> component \in st.env.changes]

\* A nested child's setValue returned r: the caller's flags object is the child's
\* unless the child's getFlags answered a new one.
Returned(r, component, flags) ==
  [st |-> [r.st EXCEPT !.flags = IF r.st.env.freshFlags THEN flags ELSE @,
                       !.log = Append(@, [ev |-> "return", id |-> component, ret |-> r.ret])],
   ret |-> r.ret]

\* result || changed
OrChanged(r, changed) == [r EXCEPT !.ret = @ \/ changed]

\* What setNestedValue returns for a button.
ButtonChanged(changed) == FALSE

setNestedValue(st, component, value, changed) ==
  IF IsButton(st.heap[component])
  THEN [st |-> st, ret |-> ButtonChanged(changed)]
  ELSE IF st.heap[component].type = "components"
  THEN OrChanged(Returned(setValue([st EXCEPT !.log = Append(@,
                                      [ev |-> "setValue", id |-> component,
                                       arg |-> Arg("object", value.obj),
                                       noValidate |-> st.flags.noValidate])],
                                   component, value),
                          component, st.flags),
                 changed)
  ELSE IF value.truthy /\ HasValue(st.heap[component], value)
  THEN OrChanged(LeafSetValue(st, component, Arg("sub", value.obj[st.heap[component].key])),
                 changed)
  ELSE OrChanged(LeafSetValue([st EXCEPT !.flags.noValidate = TRUE], component,
                              Arg("default", DefaultValue(component))),
                 changed)

\* this.getComponents().reduce(...) from child i on, `changed` the accumulator
setLoop(st, c, value, i, changed) ==
  IF i > Len(st.heap[c].components) THEN [st |-> st, ret |-> changed]
  ELSE Accumulated(setNestedValue(st, st.heap[c].components[i], value, changed),
                   c, value, i)

\* the reducer's result r.ret is the accumulator of the next child
Accumulated(r, c, value, i) == setLoop(r.st, c, value, i + 1, r.ret)

setValue(st, c, value) ==
  IF ~value.truthy THEN [st |-> st, ret |-> FALSE]
  ELSE setLoop(st, c, value, 1, FALSE)

(***************************************************************************)
(* Validity.  env.inapplicable: the containers whose own condition         *)
(* (checkCondition, utils) evaluates to false; env.invalid: the instances  *)
(* whose own validity is false (a leaf's checkValidity / isValid, a        *)
(* container's super.checkValidity / super.isValid).                       *)
(***************************************************************************)
RECURSIVE checkValidity(_, _)
RECURSIVE isValid(_, _)
RECURSIVE validLoop(_, _, _, _, _)
RECURSIVE ValidNext(_, _, _, _)
RECURSIVE ChildValid(_, _, _, _)

ValidSt(h, inapplicable, invalid) ==
  [heap |-> h, log |-> <<>>, env |-> [inapplicable |-> inapplicable, invalid |-> invalid]]

\* checkCondition(this.component, data, this.data, this.root ? this.root._form : {}, this)
checkCondition(st, c) == c \notin st.env.inapplicable

\* super.checkValidity(data, dirty) / super.isValid(data, dirty), evaluated as the
\* initial value of the reduce
BaseValid(st, c, method) ==
  [st |-> Logged(st, [ev |-> "base", id |-> c, method |-> method]),
   ret |-> c \notin st.env.invalid]

\* comp.checkValidity(data, dirty) / comp.isValid(data, dirty) on a leaf (external)
LeafValid(st, comp) ==
  [st |-> Logged(st, [ev |-> "return", id |-> comp, ret |-> comp \notin st.env.invalid]),
   ret |-> comp \notin st.env.invalid]

ValidReturned(r, comp) ==
  [r EXCEPT !.st = Logged(r.st, [ev |-> "return", id |-> comp, ret |-> r.ret])]

\* The reducer's call of the child's method; `st` has the call logged.
ChildValid(st, c, comp, method) ==
  IF ~IsNested(st.heap[comp]) THEN LeafValid(st, comp)
  ELSE IF method = "checkValidity" THEN ValidReturned(checkValidity(st, comp), comp)
  ELSE ValidReturned(isValid(st, comp), comp)

\* comp.checkValidity(data, dirty) && check, comp.isValid(data, dirty) && valid
AndValid(result, valid) == result /\ valid

\* this.getComponents().reduce(...) from child i on, `valid` the accumulator
validLoop(st, c, i, valid, method) ==
  IF i > Len(st.heap[c].components) THEN [st |-> st, ret |-> valid]
  ELSE ValidNext(ChildValid(Logged(st, [ev |-> method, id |-> st.heap[c].components[i],
                                        by |-> c]),
                            c, st.heap[c].components[i], method),
                 c, i, [valid |-> valid, method |-> method])

\* A variant that stops at the first child that fails.
MutValidNext(r, c, i, acc) ==
  IF ~r.ret THEN [st |-> r.st, ret |-> FALSE]
  ELSE validLoop(r.st, c, i + 1, AndValid(r.ret, acc.valid), acc.method)

ValidNext(r, c, i, acc) ==
  validLoop(r.st, c, i + 1, AndValid(r.ret, acc.valid), acc.method)

\* The reduce over the children with the base validity r.ret as initial value.
Reduced(r, c, method) == validLoop(r.st, c, 1, r.ret, method)

isValid(st, c) == Reduced(BaseValid(st, c, "isValid"), c, "isValid")

\* A variant that does not look at the container's condition.
MutCheckValidity(st, c) ==
  Reduced(BaseValid(st, c, "checkValidity"), c, "checkValidity")

checkValidity(st, c) ==
  IF ~checkCondition(st, c)
  THEN [st |-> Logged(st, [ev |-> "setCustomValidity", id |-> c]), ret |-> TRUE]
  ELSE Reduced(BaseValid(st, c, "checkValidity"), c, "checkValidity")

(***************************************************************************)
(* The vocabulary of the properties: the tree as the collections hold it.  *)
(***************************************************************************)
\* The container whose collection holds x (NULL: none).
Owner(h, x) ==
  IF \E c \in 1..Len(h) : x \in SeqToSet(h[c].components)
  THEN CHOOSE c \in 1..Len(h) : x \in SeqToSet(h[c].components)
  ELSE NULL

RECURSIVE Ancestors(_, _, _)
\* The containers above x, found in at most n steps.
Ancestors(h, x, n) ==
  IF n = 0 \/ Owner(h, x) = NULL THEN {}
  ELSE {Owner(h, x)} \cup Ancestors(h, Owner(h, x), n - 1)

Above(h, x) == Ancestors(h, x, Len(h))

\* The instances below c.
Below(h, c) == {x \in 1..Len(h) : c \in Above(h, x)}

\* Children are at depth 1.
Depth(h, x) == Cardinality(Above(h, x))

Position(h, x) == FindIndex(h[Owner(h, x)].components, x)

\* x comes before y in depth-first pre-order: x is above y, or where their paths
\* part, x's side is the earlier sibling.
Before(h, x, y) ==
  \/ x \in Above(h, y)
  \/ \E u \in (Above(h, x) \cup {x}), v \in (Above(h, y) \cup {y}) :
       /\ u # v
       /\ Owner(h, u) # NULL
       /\ Owner(h, u) = Owner(h, v)
       /\ Position(h, u) < Position(h, v)

RECURSIVE Sorted(_, _)
\* The instances of S in pre-order.
Sorted(h, S) ==
  IF S = {} THEN <<>>
  ELSE LET x == CHOOSE x \in S : \A y \in S \ {x} : Before(h, x, y)
       IN <<x>> \o Sorted(h, S \ {x})

PreOrder(h, c) == Sorted(h, Below(h, c))

Events(l, name) == SelectSeq(l, LAMBDA e : e.ev = name)

Ids(l) == [i \in 1..Len(l) |-> l[i].id]

First(s) == IF s = <<>> THEN NULL ELSE s[1]

\* The descendants of the root with the schema key `key`.
WithKey(h, key) == {x \in Below(h, ROOT) : h[x].component.key = key}

\* Exactly one descendant has the key, and it is at depth 2.
Single(h, key) ==
  /\ Cardinality(WithKey(h, key)) = 1
  /\ \A x \in WithKey(h, key) : Depth(h, x) = 2

(***************************************************************************)
(* The state machine.  Init is the root container as its constructor       *)
(* leaves it (components = [], hidden = []), for a schema and an options   *)
(* object drawn from bounded sets; every action is one public call on the  *)
(* root.                                                                   *)
(***************************************************************************)
NoOptions == [hasComponents |-> FALSE, components |-> <<>>]

\* The shared data object: the keys it holds.
NoData == {}

InitWithData(kids, opts, h, d) ==
  /\ heap = <<NewInstance(RootSchema(kids))>> \o h
  /\ old = heap
  /\ options = opts
  /\ data = d
  /\ op = "new"
  /\ in = [none |-> TRUE]
  /\ out = [none |-> TRUE]
  /\ log = <<>>

InitWith(kids, opts, h) == InitWithData(kids, opts, h, NoData)

Built == heap[ROOT].isBuilt

\* A call that reads the tree leaves the heap as it is, so what it does after
\* another such call is what it does after the call that last changed the heap:
\* the reading calls are taken from those states (the reachable states are the
\* same, the transitions between two readings are left out).
Changing == {"build", "addComponent", "removeComponentByKey", "removeComponentById"}

Ready == Built /\ op \in Changing

\* What an action leaves behind: the heap, the heap before it, the call, its
\* inputs, its result r = [st, ret] and its events.
Done(name, inputs, r) ==
  /\ heap' = r.st.heap
  /\ old' = heap
  /\ op' = name
  /\ in' = inputs
  /\ out' = [ret |-> r.ret]
  /\ log' = r.st.log
  /\ data' = IF "data" \in DOMAIN r.st THEN r.st.data ELSE data
  /\ UNCHANGED options

NoRet(st) == [st |-> st, ret |-> "undefined"]

Start == St(heap, {}, {}, options)

\* the creator of the root marks it built after root.build()
MarkBuilt(st) == NoRet([st EXCEPT !.heap[ROOT].isBuilt = TRUE])

Build(noElement, condFalse) ==
  /\ ~Built
  /\ Done("build", [noElement |-> noElement, condFalse |-> condFalse],
          MarkBuilt(build(St(heap, noElement, condFalse, options), ROOT)))

BuildPlain == Build({}, {})

Callbacks == {NoCallback, UserCallback}

GetComponent ==
  /\ Ready
  /\ \E key \in Keys \cup {NoKey}, fn \in Callbacks :
       Done("getComponent", [key |-> key, fn |-> fn.user],
            getComponent(Start, ROOT, key, fn))

GetComponentById ==
  /\ Ready
  /\ \E id \in 2..(Len(heap) + 1), fn \in Callbacks :
       Done("getComponentById", [id |-> id, fn |-> fn.user],
            getComponentById(Start, ROOT, id, fn))

\* The probes: a visitor that returns exactly false on the instances of `stop` and
\* the value `other` on the rest.
Probe(stop, other) ==
  [kind |-> "probe",
   ret |-> [i \in 1..Len(heap) |-> IF i \in stop THEN "false" ELSE other]]

NotFalse == {"undefined", "null", "zero"}

EveryComponent ==
  /\ Ready
  /\ \E stop \in SUBSET (2..Len(heap)), other \in NotFalse :
       Done("everyComponent", [stop |-> stop, other |-> other],
            everyComponent(Start, ROOT, Probe(stop, other)))

EachComponent ==
  /\ Ready
  /\ \E stop \in SUBSET (2..Len(heap)), other \in NotFalse :
       Done("eachComponent", [stop |-> stop, other |-> other],
            NoRet(eachComponent(Start, ROOT, Probe(stop, other))))

RemoveComponentByKey ==
  /\ Built
  /\ \E key \in Keys \cup {NoKey}, user \in BOOLEAN :
       Done("removeComponentByKey",
            [key |-> key, fn |-> user,
             again |-> op = "removeComponentByKey" /\ in.key = key /\ in.single,
             single |-> Single(heap, key)],
            removeComponentByKey(Start, ROOT, key, user))

RemoveComponentById ==
  /\ Built
  /\ \E id \in 2..(Len(heap) + 1), user \in BOOLEAN :
       Done("removeComponentById", [id |-> id, fn |-> user],
            removeComponentById(Start, ROOT, id, user))

Content(k) == IF k = "a" THEN 1 ELSE 5

\* The objects with some of the keys, and a falsy value.
Values ==
  {[truthy |-> TRUE, obj |-> [k \in P |-> Content(k)]] : P \in SUBSET Keys}
  \cup {[truthy |-> FALSE, obj |-> [k \in {} |-> Content(k)]]}

\* The leaves that take a value.
DataLeaves == {x \in Below(heap, ROOT) : heap[x].type \notin {"button", "components"}}

SetValue ==
  /\ Ready
  /\ \E value \in Values, noValidate \in BOOLEAN, freshFlags \in BOOLEAN,
        changes \in SUBSET DataLeaves :
       Done("setValue",
            [value |-> value, noValidate |-> noValidate, freshFlags |-> freshFlags,
             changes |-> changes],
            setValue(ValueSt(heap, noValidate, changes, freshFlags), ROOT, value))

\* The nested containers, the root among them.
Containers == {x \in Below(heap, ROOT) \cup {ROOT} : IsNested(heap[x])}

CheckValidity ==
  /\ Ready
  /\ \E inapplicable \in SUBSET Containers, invalid \in SUBSET (Below(heap, ROOT) \cup {ROOT}) :
       Done("checkValidity", [inapplicable |-> inapplicable, invalid |-> invalid],
            checkValidity(ValidSt(heap, inapplicable, invalid), ROOT))

IsValid ==
  /\ Ready
  /\ \E invalid \in SUBSET (Below(heap, ROOT) \cup {ROOT}) :
       Done("isValid", [inapplicable |-> {}, invalid |-> invalid],
            isValid(ValidSt(heap, {}, invalid), ROOT))

\* The schemas given to addComponent: a leaf, internal or not, statically hidden
\* or not, and a container with a statically hidden child.
AddSchemas ==
  {Leaf("a", "textfield", i, hd) : i \in BOOLEAN, hd \in BOOLEAN}
  \cup {Container("b", <<Leaf("a", "textfield", FALSE, TRUE)>>)}

\* The `before` elements: none, a plain element (before.component undefined), the
\* element of a child of the root.
Befores ==
  {NoBefore, [given |-> TRUE, component |-> NULL]}
  \cup {[given |-> TRUE, component |-> x] : x \in SeqToSet(heap[ROOT].components)}

AddComponent ==
  /\ Built
  /\ Len(heap) < MaxInstances
  /\ \E component \in AddSchemas, before \in Befores, noAdd \in BOOLEAN,
        noElement \in SUBSET {"a"}, condFalse \in SUBSET {"a"} :
       Done("addComponent",
            [component |-> component, before |-> before, noAdd |-> noAdd,
             noElement |-> noElement, condFalse |-> condFalse],
            addComponent(St(heap, noElement, condFalse, options), ROOT, component,
                         before, noAdd))

BuildAny ==
  \E noElement \in SUBSET Keys, condFalse \in SUBSET Keys : Build(noElement, condFalse)

InitTree == \E kids \in Forests(MaxNodesTree, TextLeaves) : InitWith(kids, NoOptions, <<>>)

NextTree == BuildPlain \/ GetComponent \/ GetComponentById \/ EveryComponent \/ EachComponent

SpecTree == InitTree /\ [][NextTree]_vars

InitRemove ==
  \E kids \in Forests(MaxNodesRemove, TextLeaves) : InitWith(kids, NoOptions, <<>>)

NextRemove == BuildPlain \/ RemoveComponentByKey \/ RemoveComponentById

SpecRemove == InitRemove /\ [][NextRemove]_vars

(***************************************************************************)
(* C1.  getComponent(key) / getComponentById(id) return the first instance *)
(* in depth-first pre-order whose schema key (id) matches, call the        *)
(* callback exactly once with it and its sibling collection, and return    *)
(* null without calling the callback when nothing matches.                 *)
(***************************************************************************)
FirstByKey(h, key) ==
  First(SelectSeq(PreOrder(h, ROOT), LAMBDA x : h[x].component.key = key))

FirstById(h, id) == First(SelectSeq(PreOrder(h, ROOT), LAMBDA x : x = id))

FoundOnce(m) ==
  /\ out.ret = m
  /\ Events(log, "cb") = IF in.fn /\ m # NULL THEN <<Ev("cb", m, Owner(heap, m))>> ELSE <<>>

C1_FirstMatchOnce ==
  /\ op = "getComponent" => FoundOnce(FirstByKey(heap, in.key))
  /\ op = "getComponentById" => FoundOnce(FirstById(heap, in.id))

RECURSIVE KeysOf(_)
\* The keys of the schema nodes of a forest.
KeysOf(kids) ==
  UNION {{kids[i].key} \cup KeysOf(kids[i].components) : i \in 1..Len(kids)}

\* The visitor is chosen per instance and the keys play no part in a visit: the
\* schemas of one key.
InitVisit ==
  \E kids \in Forests(MaxNodesTree, {Leaf("a", "textfield", FALSE, FALSE)}) :
    /\ KeysOf(kids) \subseteq {"a"}
    /\ InitWith(kids, NoOptions, <<>>)

NextVisit == BuildPlain \/ EveryComponent

SpecVisit == InitVisit /\ [][NextVisit]_vars

(***************************************************************************)
(* C9.  everyComponent visits, in pre-order, exactly the instances the     *)
(* stops leave reachable: a visitor returning exactly false on an instance *)
(* ends the loop of that instance's level (its later siblings and their    *)
(* descendants are not visited) and its subtree is not descended, while a  *)
(* false returned inside an earlier sibling's subtree ends only that inner *)
(* loop; no other falsy value stops anything.                              *)
(***************************************************************************)
\* No sibling before y returned false.
LoopReaches(h, stop, y) ==
  \A i \in 1..(Position(h, y) - 1) : h[Owner(h, y)].components[i] \notin stop

Reached(h, stop, x) ==
  /\ LoopReaches(h, stop, x)
  /\ \A y \in Above(h, x) \ {ROOT} : y \notin stop /\ LoopReaches(h, stop, y)

C9_FalseStopsOneLevel ==
  op = "everyComponent" =>
    Ids(Events(log, "visit")) =
      SelectSeq(PreOrder(heap, ROOT), LAMBDA x : Reached(heap, in.stop, x))

\* Children [a, b, c], a with a child a1; the visitor returns false on a1 and on b:
\* a, a1 and b are visited, c is not.
C9_Witness ==
  /\ op = "everyComponent"
  /\ Len(heap[ROOT].components) = 3
  /\ LET a == heap[ROOT].components[1]
         b == heap[ROOT].components[2]
         c == heap[ROOT].components[3]
     IN /\ Len(heap[a].components) = 1
        /\ in.stop = {heap[a].components[1], b}
        /\ Ids(Events(log, "visit")) = <<a, heap[a].components[1], b>>

(***************************************************************************)
(* C6.  removeComponentByKey(k) on a tree with exactly one descendant of   *)
(* key k, at depth 2, destroys it, detaches it, removes it from its        *)
(* owner's collection and leaves every other instance in place, and calls  *)
(* the callback exactly once with it and its owning collection; the same   *)
(* call made again removes nothing, calls the callback exactly once with   *)
(* null and returns null.                                                  *)
(***************************************************************************)
C6_RemoveByKey ==
  op = "removeComponentByKey" =>
    /\ Single(old, in.key) =>
         \A x \in WithKey(old, in.key) :
           /\ heap[x].destroyed = old[x].destroyed + 1
           /\ ~heap[x].attached
           /\ heap[Owner(old, x)].components = RemoveId(old[Owner(old, x)].components, x)
           /\ \A c \in 1..Len(old) :
                c \notin {x, Owner(old, x)} \cup Below(old, x) => heap[c] = old[c]
           /\ in.fn => Events(log, "cb") = <<Ev("cb", x, Owner(old, x))>>
    /\ in.again =>
         /\ heap = old
         /\ out.ret = "null"
         /\ in.fn => Events(log, "cb") = <<Ev("cb", NULL, NULL)>>

\* The second call, after a first one that removed the single descendant of the
\* key, with a sibling and an uncle left in place.
C6_Witness ==
  /\ op = "removeComponentByKey"
  /\ in.again
  /\ in.fn
  /\ Len(heap[ROOT].components) = 2
  /\ \E x \in 1..Len(heap) : heap[x].destroyed = 1 /\ heap[x].key = in.key

InitValue == \E kids \in Forests(MaxNodesValue, TypedLeaves) : InitWith(kids, NoOptions, <<>>)

NextValue == BuildPlain \/ SetValue

SpecValue == InitValue /\ [][NextValue]_vars

(***************************************************************************)
(* C2.  setValue with a truthy value returns true exactly when some        *)
(* child's own setValue returned true, whatever the order of the children, *)
(* and calls every non-button child's setValue exactly once in child       *)
(* order.                                                                  *)
(***************************************************************************)
\* The events of the direct children of the root.
OfChildren(l) == SelectSeq(l, LAMBDA e : e.id \in SeqToSet(heap[ROOT].components))

C2_ChangedIsOr ==
  (op = "setValue" /\ in.value.truthy) =>
    /\ out.ret = (\E i \in 1..Len(log) :
                    /\ log[i].ev = "return"
                    /\ log[i].id \in SeqToSet(heap[ROOT].components)
                    /\ log[i].ret)
    /\ Ids(OfChildren(Events(log, "setValue"))) =
         SelectSeq(heap[ROOT].components, LAMBDA x : heap[x].type # "button")

(***************************************************************************)
(* C3.  In one setValue pass noValidate is forced to true for the call to  *)
(* a child that has no entry in the value, and only for that call: a child *)
(* that has an entry receives the noValidate the caller passed.            *)
(***************************************************************************)
C3_NoValidateOnlyForDefaulted ==
  op = "setValue" =>
    \A i \in 1..Len(log) :
      log[i].ev = "setValue" =>
        /\ log[i].arg.kind = "default" => log[i].noValidate
        /\ log[i].arg.kind = "sub" => log[i].noValidate = in.noValidate

(***************************************************************************)
(* C10.  setValue routes the value: a falsy value returns false and calls  *)
(* no child; otherwise no button is called, a child of type "components"   *)
(* is called with the same value object, a child whose key has an entry is *)
(* called with the sub-value at its key, a child with no entry is called   *)
(* with its own default value, and each non-button child is called exactly *)
(* once.                                                                   *)
(***************************************************************************)
\* The call e is the one the routing rule gives its instance.
Routed(e) ==
  IF heap[e.id].type = "components"
  THEN e.arg.kind = "object" /\ e.arg.v = in.value.obj
  ELSE IF heap[e.id].key \in DOMAIN in.value.obj
  THEN e.arg.kind = "sub" /\ e.arg.v = in.value.obj[heap[e.id].key]
  ELSE e.arg.kind = "default" /\ e.arg.v = DefaultValue(e.id)

C10_Routing ==
  op = "setValue" =>
    IF ~in.value.truthy
    THEN out.ret = FALSE /\ log = <<>>
    ELSE /\ Ids(Events(log, "setValue")) =
              SelectSeq(PreOrder(heap, ROOT), LAMBDA x : heap[x].type # "button")
         /\ \A i \in 1..Len(log) : log[i].ev = "setValue" => Routed(log[i])

\* A pass over a button, a nested container and a leaf with an entry.
C10_Witness ==
  /\ op = "setValue"
  /\ in.value.truthy
  /\ \E w, x, y \in SeqToSet(heap[ROOT].components) :
       /\ heap[w].type = "button"
       /\ heap[x].type = "components"
       /\ heap[y].type = "textfield"
       /\ heap[y].key \in DOMAIN in.value.obj
       /\ \E i \in 1..Len(log) : log[i].ev = "setValue" /\ log[i].id = y
       /\ \E i \in 1..Len(log) : log[i].ev = "setValue" /\ log[i].id = x

InitValid == \E kids \in Forests(MaxNodesValid, TextLeaves) : InitWith(kids, NoOptions, <<>>)

NextValid == BuildPlain \/ CheckValidity \/ IsValid

SpecValid == InitValid /\ [][NextValid]_vars

(***************************************************************************)
(* C7.  checkValidity on a container whose own condition evaluates to      *)
(* false clears the custom validity message, returns true, calls           *)
(* checkValidity on none of its children and does not evaluate its own     *)
(* base validity.                                                          *)
(***************************************************************************)
C7_InapplicableIsValid ==
  (op = "checkValidity" /\ ROOT \in in.inapplicable) =>
    /\ out.ret = TRUE
    /\ log = <<[ev |-> "setCustomValidity", id |-> ROOT]>>

\* The condition is false on a container with children, one of them invalid.
C7_Witness ==
  /\ op = "checkValidity"
  /\ ROOT \in in.inapplicable
  /\ Len(heap[ROOT].components) >= 2
  /\ heap[ROOT].components[1] \in in.invalid
  /\ ROOT \in in.invalid
  /\ out.ret = TRUE

(***************************************************************************)
(* C8.  isValid, and checkValidity when the container's condition holds,   *)
(* never short-circuit: every direct child's method is called exactly      *)
(* once, in collection order, whatever failed before and whatever the      *)
(* container's own base validity, and the result is true exactly when the  *)
(* base validity and every child's result are true.                        *)
(***************************************************************************)
C8_NoShortCircuit ==
  (op = "isValid" \/ (op = "checkValidity" /\ ROOT \notin in.inapplicable)) =>
    /\ Ids(SelectSeq(log, LAMBDA e : e.ev = op /\ e.by = ROOT)) = heap[ROOT].components
    /\ Ids(OfChildren(Events(log, "return"))) = heap[ROOT].components
    /\ Len(SelectSeq(log, LAMBDA e : e.ev = "base" /\ e.id = ROOT)) = 1
    /\ out.ret = (/\ ROOT \notin in.invalid
                  /\ \A i \in 1..Len(log) :
                       (log[i].ev = "return" /\ log[i].id \in SeqToSet(heap[ROOT].components))
                         => log[i].ret)

\* Three children, the first fails: all three are called and the result is false.
C8_Witness ==
  /\ op = "checkValidity"
  /\ ROOT \notin in.inapplicable
  /\ Len(heap[ROOT].components) = 3
  /\ in.invalid = {heap[ROOT].components[1]}
  /\ Ids(SelectSeq(log, LAMBDA e : e.ev = op /\ e.by = ROOT)) = heap[ROOT].components
  /\ out.ret = FALSE

\* A leaf built elsewhere, for options.components.
Prebuilt == [NewInstance(Leaf("a", "textfield", FALSE, FALSE)) EXCEPT
               !.isBuilt = TRUE, !.element = TRUE]

\* The schemas with internal and statically hidden leaves; options.components is
\* absent, an empty array, or an array of one instance built elsewhere.
InitBuild ==
  \E kids \in Forests(MaxNodesBuild, FlaggedLeaves) :
    \/ InitWith(kids, NoOptions, <<>>)
    \/ InitWith(kids, [hasComponents |-> TRUE, components |-> <<>>], <<>>)
    \/ InitWith(kids, [hasComponents |-> TRUE, components |-> <<2>>], <<Prebuilt>>)

NextBuild == BuildAny

SpecBuild == InitBuild /\ [][NextBuild]_vars

(***************************************************************************)
(* C5.  After build without options.components, the collection of a        *)
(* container holds exactly one instance per non-internal entry of its      *)
(* schema, in declaration order; the internal entries are created and      *)
(* built but are not in the collection.                                    *)
(***************************************************************************)
NonInternal(schemas) == SelectSeq(schemas, LAMBDA e : ~e.internal)

\* The schemas of the collection of c, in collection order.
Realized(h, c) == [i \in 1..Len(h[c].components) |-> h[h[c].components[i]].component]

CreatedBy(h, c) == {x \in 1..Len(h) : h[x].parent = c}

OneInstancePerEntry(h, c) ==
  /\ Realized(h, c) = NonInternal(h[c].component.components)
  /\ Cardinality(SeqToSet(h[c].components)) = Len(h[c].components)
  /\ SeqToSet(h[c].components) \subseteq CreatedBy(h, c)
  /\ Cardinality(CreatedBy(h, c)) = Len(h[c].component.components)
  /\ \A x \in CreatedBy(h, c) :
       /\ h[x].isBuilt
       /\ \E i \in 1..Len(h[c].component.components) :
            h[x].component = h[c].component.components[i]
       /\ h[x].component.internal => x \notin SeqToSet(h[c].components)

C5_BuildOrder ==
  (op = "build" /\ ~options.hasComponents) =>
    \A c \in 1..Len(heap) : IsNested(heap[c]) => OneInstancePerEntry(heap, c)

\* An internal entry declared before a plain one: two instances, one in the
\* collection.
C5_Witness ==
  /\ op = "build"
  /\ ~options.hasComponents
  /\ Len(heap[ROOT].component.components) = 2
  /\ heap[ROOT].component.components[1].internal
  /\ ~heap[ROOT].component.components[2].internal
  /\ heap[ROOT].components = <<3>>
  /\ heap[2].isBuilt

\* C5 as stated, for every build: also when options.components is supplied.
C5_Original ==
  (op = "build" /\ Len(heap[ROOT].component.components) > 0) =>
    OneInstancePerEntry(heap, ROOT)

InitAdd == \E kids \in Forests(MaxNodesAdd, TextLeaves) : InitWith(kids, NoOptions, <<>>)

NextAdd == BuildPlain \/ AddComponent

SpecAdd == InitAdd /\ [][NextAdd]_vars

(***************************************************************************)
(* C4.  addComponent applies the visibility cascade setHidden to the new   *)
(* child exactly when attachment is not skipped (noAdd false) and the      *)
(* child has an element; the cascade is then its last step.  On the other  *)
(* two paths the child is returned as createComponent left it.             *)
(***************************************************************************)
\* The cascade of the container c on the child x is in the log.
Cascaded(l, c, x) == \E i \in 1..Len(l) : l[i] = Ev("setHidden", x, c)

C4_CascadeWhenAttached ==
  op = "addComponent" =>
    /\ Cascaded(log, ROOT, out.ret) <=> (~in.noAdd /\ heap[out.ret].element)
    /\ heap[out.ret].attached <=> (~in.noAdd /\ heap[out.ret].element)
    /\ (in.noAdd \/ ~heap[out.ret].element) => heap[out.ret].visible

\* A statically hidden leaf attached normally: the cascade makes it invisible.
C4_Witness ==
  /\ op = "addComponent"
  /\ ~in.noAdd
  /\ in.component.hidden
  /\ heap[out.ret].element
  /\ heap[out.ret].attached
  /\ Cascaded(log, ROOT, out.ret)
  /\ ~heap[out.ret].visible

\* C4 as stated: the cascade is applied on every path.
C4_Original ==
  op = "addComponent" => Cascaded(log, ROOT, out.ret)

(***************************************************************************)
(* Deep flattening.                                                        *)
(***************************************************************************)
RECURSIVE getAllComponents(_, _)
RECURSIVE flatLoop(_, _, _, _)

\* array.concat(result): an array is spread, anything else is one more element
Concat(components, result) ==
  IF result.isArray THEN components \o result.v ELSE Append(components, result.v)

\* A variant without the test for getAllComponents: the child itself is the result.
MutFlatResult(h, component) == [isArray |-> FALSE, v |-> component]

\* let result = component; if (component && component.getAllComponents) result =
\* component.getAllComponents()
FlatResult(h, component) ==
  IF IsNested(h[component])
  THEN [isArray |-> TRUE, v |-> getAllComponents(h, component)]
  ELSE [isArray |-> FALSE, v |-> component]

\* this.getComponents().reduce(...) from child i on, `components` the accumulator
flatLoop(h, c, i, components) ==
  IF i > Len(h[c].components) THEN components
  ELSE flatLoop(h, c, i + 1, Concat(components, FlatResult(h, h[c].components[i])))

getAllComponents(h, c) == flatLoop(h, c, 1, <<>>)

GetAllComponents ==
  /\ Ready
  /\ Done("getAllComponents", [none |-> TRUE],
          [st |-> Start, ret |-> getAllComponents(heap, ROOT)])

InitFlat == \E kids \in Forests(MaxNodesTree, TextLeaves) : InitWith(kids, NoOptions, <<>>)

NextFlat == BuildPlain \/ GetAllComponents

SpecFlat == InitFlat /\ [][NextFlat]_vars

(***************************************************************************)
(* C11.  getAllComponents() returns the leaves below the container, each   *)
(* exactly once, in depth-first collection order, and no nested container  *)
(* at any depth; an empty nested container contributes nothing.            *)
(***************************************************************************)
C11_FlatLeaves ==
  op = "getAllComponents" =>
    /\ out.ret = SelectSeq(PreOrder(heap, ROOT), LAMBDA x : ~IsNested(heap[x]))
    /\ Cardinality(SeqToSet(out.ret)) = Len(out.ret)
    /\ SeqToSet(out.ret) = {x \in Below(heap, ROOT) : ~IsNested(heap[x])}

\* container -> container -> leaf, next to an empty nested container: the result
\* is exactly the leaf.
C11_Witness ==
  /\ op = "getAllComponents"
  /\ Len(heap[ROOT].components) = 2
  /\ IsNested(heap[heap[ROOT].components[1]])
  /\ Len(heap[heap[ROOT].components[1]].components) = 1
  /\ IsNested(heap[heap[ROOT].components[2]])
  /\ heap[heap[ROOT].components[2]].components = <<>>
  /\ out.ret = heap[heap[ROOT].components[1]].components
  /\ ~IsNested(heap[out.ret[1]])

(***************************************************************************)
(* The visibility cascade and the destruction of the children as calls on  *)
(* the root.                                                               *)
(***************************************************************************)
\* hideComponents(hidden) with the children of the keys in condFalse failing
\* their own conditionallyVisible().
Hide(hidden, condFalse) ==
  /\ Built
  /\ Done("hideComponents", [hidden |-> hidden, condFalse |-> condFalse],
          NoRet(hideComponents(St(heap, {}, condFalse, options), ROOT, hidden)))

HidePlain == \E hidden \in SUBSET Keys : Hide(hidden, {})

HideAny == \E hidden \in SUBSET Keys, condFalse \in SUBSET Keys : Hide(hidden, condFalse)

DestroyComponents ==
  /\ Built
  /\ Done("destroyComponents", [none |-> TRUE], NoRet(destroyComponents(Start, ROOT)))

InitDestroy == \E kids \in Forests(MaxNodesRemove, TextLeaves) : InitWith(kids, NoOptions, <<>>)

NextDestroy == BuildPlain \/ HidePlain \/ DestroyComponents

SpecDestroy == InitDestroy /\ [][NextDestroy]_vars

(***************************************************************************)
(* C12.  After destroyComponents() the collection and the hidden set of    *)
(* the container are empty, and every child it held, and recursively every *)
(* child of a nested container below, has had destroy called exactly once  *)
(* and is detached.                                                        *)
(***************************************************************************)
\* The destroy calls made on x during the last call.
Destroys(l, x) == Len(SelectSeq(l, LAMBDA e : e.ev = "destroy" /\ e.id = x))

C12_DestroyAll ==
  op = "destroyComponents" =>
    /\ heap[ROOT].components = <<>>
    /\ heap[ROOT].hidden = {}
    /\ \A x \in Below(old, ROOT) :
         /\ Destroys(log, x) = 1
         /\ heap[x].destroyed = old[x].destroyed + 1
         /\ ~heap[x].attached
         /\ IsNested(heap[x]) => heap[x].components = <<>> /\ heap[x].hidden = {}
    /\ \A i \in 1..Len(log) : log[i].ev = "destroy" => log[i].id \in Below(old, ROOT)

\* Two children held, one of them a nested container with a child of its own,
\* and a hidden set in force.
C12_Witness ==
  /\ op = "destroyComponents"
  /\ Len(old[ROOT].components) = 2
  /\ old[ROOT].hidden # {}
  /\ \E x \in SeqToSet(old[ROOT].components) : Len(old[x].components) = 1
  /\ Len(Events(log, "destroy")) = 3
  /\ heap[ROOT].components = <<>>

\* Leaves statically hidden or not.
HiddenLeaves == {Leaf(k, "textfield", FALSE, hd) : k \in Keys, hd \in BOOLEAN}

InitHide == \E kids \in Forests(MaxNodesHide, HiddenLeaves) : InitWith(kids, NoOptions, <<>>)

NextHide == BuildAny \/ HideAny

SpecHide == InitHide /\ [][NextHide]_vars

(***************************************************************************)
(* C13.  hideComponents(H) stores H as the hidden set of the container;    *)
(* every direct leaf child whose key is in H is invisible afterwards, and  *)
(* a direct leaf child whose key is not in H, that is not statically       *)
(* hidden and whose own conditional-visibility check passes keeps the      *)
(* visibility it had.                                                      *)
(***************************************************************************)
\* The direct children of c that are leaves.
LeafChildren(h, c) == {x \in SeqToSet(h[c].components) : ~IsNested(h[x])}

C13_HideByKey ==
  op = "hideComponents" =>
    /\ heap[ROOT].hidden = in.hidden
    /\ \A x \in LeafChildren(heap, ROOT) :
         /\ heap[x].key \in in.hidden => ~heap[x].visible
         /\ (/\ heap[x].key \notin in.hidden
             /\ ~heap[x].component.hidden
             /\ heap[x].key \notin in.condFalse) => heap[x].visible = old[x].visible

\* Children keyed a and b, both visible before; hideComponents({b}) hides b and
\* leaves a visible.
C13_Witness ==
  /\ op = "hideComponents"
  /\ in.hidden = {"b"}
  /\ in.condFalse = {}
  /\ Len(heap[ROOT].components) = 2
  /\ LET A == heap[ROOT].components[1]
         B == heap[ROOT].components[2]
     IN /\ heap[A].key = "a" /\ heap[B].key = "b"
        /\ ~IsNested(heap[A]) /\ ~IsNested(heap[B])
        /\ old[A].visible /\ old[B].visible
        /\ heap[A].visible /\ ~heap[B].visible

(***************************************************************************)
(* C20.  The cascade only ever forces invisibility: no call changes the    *)
(* visible flag of an instance from false to true, so a child hidden by    *)
(* hideComponents(H1) is still invisible after hideComponents(H2) with its *)
(* key not in H2.                                                          *)
(***************************************************************************)
C20_NeverReshown ==
  \A x \in 1..Len(old) : ~old[x].visible => ~heap[x].visible

\* hideComponents(H2) after hideComponents(H1): a child with its key in H1 and not
\* in H2, neither statically hidden nor failing its condition, stays invisible.
C20_Witness ==
  /\ op = "hideComponents"
  /\ \E x \in LeafChildren(heap, ROOT) :
       /\ heap[x].key \in old[ROOT].hidden
       /\ heap[x].key \notin in.hidden
       /\ heap[x].key \notin in.condFalse
       /\ ~heap[x].component.hidden
       /\ ~old[x].visible
       /\ ~heap[x].visible

(***************************************************************************)
(* Reset.  st.data: the keys the shared data object holds.  env.rewrites:  *)
(* the leaves whose resetValue (external) leaves a value at their key; the *)
(* other leaves remove their key.                                          *)
(***************************************************************************)
RECURSIVE resetValue(_, _)
RECURSIVE resetLoop(_, _, _)
RECURSIVE setPristine(_, _, _)
RECURSIVE pristineLoop(_, _, _, _)

ResetSt(h, d, rewrites) ==
  [heap |-> h, log |-> <<>>, data |-> d, env |-> [rewrites |-> rewrites]]

\* super.setPristine(pristine), and setPristine on a leaf (external)
BasePristine(st, c, pristine) ==
  [st EXCEPT !.heap[c].pristine = pristine,
             !.log = Append(@, Ev("setPristine", c, st.heap[c].parent))]

\* this.getComponents().forEach((comp) => comp.setPristine(pristine)) from child i on
pristineLoop(st, c, i, pristine) ==
  IF i > Len(st.heap[c].components) THEN st
  ELSE pristineLoop(setPristine(st, st.heap[c].components[i], pristine), c, i + 1, pristine)

setPristine(st, c, pristine) ==
  IF IsNested(st.heap[c])
  THEN pristineLoop(BasePristine(st, c, pristine), c, 1, pristine)
  ELSE BasePristine(st, c, pristine)

\* comp.resetValue() on a leaf (external)
LeafReset(st, c) ==
  [st EXCEPT !.data = IF c \in st.env.rewrites THEN @ \cup {st.heap[c].key}
                      ELSE @ \ {st.heap[c].key}]

\* this.getComponents().forEach((comp) => comp.resetValue()) from child i on
resetLoop(st, c, i) ==
  IF i > Len(st.heap[c].components) THEN st
  ELSE resetLoop(resetValue(Logged(st, Ev("resetValue", st.heap[c].components[i], c)),
                            st.heap[c].components[i]),
                 c, i + 1)

\* _.unset(this.data, this.key)
Unset(st, c) ==
  [st EXCEPT !.data = @ \ {st.heap[c].key}, !.log = Append(@, Ev("unset", c, c))]

\* A variant that removes the key first and resets the children afterwards.
MutResetValue(st, c) ==
  IF IsNested(st.heap[c])
  THEN setPristine(resetLoop(Unset(st, c), c, 1), c, TRUE)
  ELSE LeafReset(st, c)

resetValue(st, c) ==
  IF IsNested(st.heap[c])
  THEN setPristine(Unset(resetLoop(st, c, 1), c), c, TRUE)
  ELSE LeafReset(st, c)

\* return this.data
getValue(st, c) == [st |-> st, ret |-> st.data]

\* The leaves below the root.
Leaves == {x \in Below(heap, ROOT) : ~IsNested(heap[x])}

\* setPristine(pristine) on the root
SetPristine ==
  /\ Built
  /\ \E pristine \in BOOLEAN :
       Done("setPristine", [pristine |-> pristine],
            NoRet(setPristine(ResetSt(heap, data, {}), ROOT, pristine)))

\* resetValue() on a container of the tree
ResetValue ==
  /\ Built
  /\ \E c \in Containers, rewrites \in SUBSET Leaves :
       Done("resetValue", [c |-> c, rewrites |-> rewrites, before |-> data],
            NoRet(resetValue(ResetSt(heap, data, rewrites), c)))

\* getValue() on a container of the tree; `reset`: resetValue() on it was the call
\* before
GetValue ==
  /\ Built
  /\ op \in {"build", "resetValue"}
  /\ \E c \in Containers :
       Done("getValue", [c |-> c, reset |-> op = "resetValue" /\ in.c = c],
            getValue(ResetSt(heap, data, {}), c))

\* The data object holds nothing, or a value at every key; the resets leave the
\* sets in between.
InitReset ==
  \E kids \in Forests(MaxNodesReset, TextLeaves), d \in {NoData, Keys \cup {"root"}} :
    InitWithData(kids, NoOptions, <<>>, d)

NextReset == BuildPlain \/ SetPristine \/ ResetValue \/ GetValue

SpecReset == InitReset /\ [][NextReset]_vars

(***************************************************************************)
(* C14.  resetValue() on a container calls resetValue on every child       *)
(* before it removes the container's own key from the shared data object,  *)
(* and leaves the pristine flag true on the container and on every node    *)
(* below it; getValue() then returns the shared data object, in which the  *)
(* container's own key is absent.                                          *)
(***************************************************************************)
\* The position in l of the removal of the key of c, 0 when there is none.
UnsetAt(l, c) ==
  IF \E i \in 1..Len(l) : l[i] = Ev("unset", c, c)
  THEN CHOOSE i \in 1..Len(l) : l[i] = Ev("unset", c, c)
  ELSE 0

C14_ResetRoundTrip ==
  /\ op = "resetValue" =>
       /\ Len(SelectSeq(log, LAMBDA e : e = Ev("unset", in.c, in.c))) = 1
       /\ Ids(SelectSeq(log, LAMBDA e : e.ev = "resetValue" /\ e.by = in.c))
            = heap[in.c].components
       /\ \A i \in 1..Len(log) :
            (log[i].ev = "resetValue" /\ log[i].by = in.c) => i < UnsetAt(log, in.c)
       /\ heap[in.c].key \notin data
       /\ \A x \in {in.c} \cup Below(heap, in.c) : heap[x].pristine
  /\ (op = "getValue" /\ in.reset) =>
       /\ out.ret = data
       /\ heap[in.c].key \notin out.ret
       /\ \A x \in {in.c} \cup Below(heap, in.c) : heap[x].pristine

\* getValue() after resetValue() on a nested container whose child has the
\* container's key and leaves a value there, in a tree that was not pristine: the
\* key is absent all the same.
C14_Witness ==
  /\ op = "getValue"
  /\ in.reset
  /\ in.c # ROOT
  /\ Len(heap[in.c].components) = 1
  /\ heap[heap[in.c].components[1]].key = heap[in.c].key
  /\ heap[in.c].key \notin out.ret
  /\ ~heap[ROOT].pristine
  /\ heap[in.c].pristine
  /\ heap[heap[in.c].components[1]].pristine

(***************************************************************************)
(* Asynchronous joins.  handle: the state of the promise the instance's    *)
(* hook returned in the current call ("none" before the call, "pending",   *)
(* "resolved", "rejected").  A leaf's promise is settled by the leaf       *)
(* (external); a container's promise is the Promise.all of its children's  *)
(* and is settled by a reaction job.                                       *)
(***************************************************************************)
RECURSIVE hookAll(_, _, _)
RECURSIVE hookLoop(_, _, _, _)
RECURSIVE callHook(_, _, _, _)

Hooks == {"beforeNext", "beforeSubmit", "dataReady"}

JoinSt(h) == [heap |-> h, log |-> <<>>]

\* comp.beforeNext() / comp.beforeSubmit() / component.dataReady of the child comp
callHook(st, comp, c, method) ==
  IF IsNested(st.heap[comp])
  THEN hookAll(Logged(st, Ev(method, comp, c)), comp, method)
  ELSE [st EXCEPT !.heap[comp].handle = "pending",
                  !.log = Append(@, Ev(method, comp, c))]

\* this.getComponents().map((comp) => comp.beforeNext()) from child i on
hookLoop(st, c, i, method) ==
  IF i > Len(st.heap[c].components) THEN st
  ELSE hookLoop(callHook(st, st.heap[c].components[i], c, method), c, i + 1, method)

\* The promise Promise.all returns for the array of the children's promises: of an
\* empty array it is resolved at once.
Joined(st, c) ==
  [st EXCEPT !.heap[c].handle = IF Len(st.heap[c].components) = 0 THEN "resolved"
                                ELSE "pending"]

\* return Promise.all(this.getComponents().map(...))
hookAll(st, c, method) == Joined(hookLoop(st, c, 1, method), c)

\* A variant that settles with the first child that settles (Promise.race).
MutAllOutcome(h, c) ==
  IF \E i \in 1..Len(h[c].components) : h[h[c].components[i]].handle = "rejected"
  THEN "rejected"
  ELSE IF \E i \in 1..Len(h[c].components) : h[h[c].components[i]].handle = "resolved"
  THEN "resolved"
  ELSE "pending"

\* What Promise.all makes of the children's promises: rejected when one of them is,
\* resolved when all of them are.
AllOutcome(h, c) ==
  IF \E i \in 1..Len(h[c].components) : h[h[c].components[i]].handle = "rejected"
  THEN "rejected"
  ELSE IF \A i \in 1..Len(h[c].components) : h[h[c].components[i]].handle = "resolved"
  THEN "resolved"
  ELSE "pending"

\* beforeNext(), beforeSubmit() or the read of dataReady on the root
Join ==
  /\ Built
  /\ heap[ROOT].handle = "none"
  /\ \E method \in Hooks :
       Done(method, [method |-> method], NoRet(hookAll(JoinSt(heap), ROOT, method)))

\* A leaf settles the promise its hook returned.
Settle ==
  /\ \E x \in Leaves, outcome \in {"resolved", "rejected"} :
       /\ heap[x].handle = "pending"
       /\ Done("settle", [x |-> x, outcome |-> outcome],
               NoRet([heap |-> [heap EXCEPT ![x].handle = outcome], log |-> <<>>]))

\* The reaction job of a container's Promise.all.
React ==
  /\ \E c \in Containers :
       /\ heap[c].handle = "pending"
       /\ AllOutcome(heap, c) # "pending"
       /\ Done("react", [c |-> c],
               NoRet([heap |-> [heap EXCEPT ![c].handle = AllOutcome(heap, c)],
                      log |-> <<>>]))

InitJoin ==
  \E kids \in Forests(MaxNodesJoin, {Leaf("a", "textfield", FALSE, FALSE)}) :
    /\ KeysOf(kids) \subseteq {"a"}
    /\ InitWith(kids, NoOptions, <<>>)

NextJoin == BuildPlain \/ Join \/ Settle \/ React

\* The reaction jobs are run by the job queue: a reaction that can run does run.
SpecJoin == InitJoin /\ [][NextJoin]_vars /\ WF_vars(React)

(***************************************************************************)
(* C15.  beforeNext(), beforeSubmit() and dataReady call the hook of every *)
(* direct child, in order; the container's promise is never resolved while *)
(* a child's is pending or rejected, is resolved once all the children's   *)
(* are resolved, whatever the order in which they settle, and is rejected  *)
(* once one child's is rejected.                                           *)
(***************************************************************************)
ChildHandles(h, c) == {h[h[c].components[i]].handle : i \in 1..Len(h[c].components)}

C15_JoinSafe ==
  /\ op \in Hooks =>
       /\ Ids(SelectSeq(log, LAMBDA e : e.ev = op /\ e.by = ROOT)) = heap[ROOT].components
       /\ "none" \notin ChildHandles(heap, ROOT)
  /\ \A c \in Containers :
       /\ heap[c].handle = "resolved" => ChildHandles(heap, c) \subseteq {"resolved"}
       /\ heap[c].handle = "rejected" => "rejected" \in ChildHandles(heap, c)

C15_AllMustSettle ==
  /\ []C15_JoinSafe
  /\ (heap[ROOT].handle = "pending" /\ ChildHandles(heap, ROOT) = {"resolved"})
       ~> (heap[ROOT].handle = "resolved")
  /\ (heap[ROOT].handle = "pending" /\ "rejected" \in ChildHandles(heap, ROOT))
       ~> (heap[ROOT].handle = "rejected")

\* Three children whose promises were all resolved: the reaction job resolves the
\* promise of the container.
C15_Witness ==
  /\ op = "react"
  /\ in.c = ROOT
  /\ Len(heap[ROOT].components) = 3
  /\ old[ROOT].handle = "pending"
  /\ heap[ROOT].handle = "resolved"
  /\ ChildHandles(heap, ROOT) = {"resolved"}

(***************************************************************************)
(* checkData.  env.updates, env.calculates: the instances whose own        *)
(* updateValue / calculateValue (a leaf's method, a container's            *)
(* super.calculateValue) reports a change; env.inapplicable, env.invalid   *)
(* as for the validity.  A JavaScript value is [t, n]: its type and its    *)
(* number (true is 1, false and undefined are 0 in a bitwise operation).   *)
(***************************************************************************)
RECURSIVE updateValue(_, _)
RECURSIVE calculateValue(_, _)
RECURSIVE orLoop(_, _, _, _, _)
RECURSIVE OrNext(_, _, _, _, _)
RECURSIVE ChildOr(_, _, _)
RECURSIVE checkConditions(_, _)
RECURSIVE condLoop(_, _, _)

JsBool(b) == [t |-> "boolean", n |-> IF b THEN 1 ELSE 0]
JsNum(n) == [t |-> "number", n |-> n]
Undefined == [t |-> "undefined", n |-> 0]
Truthy(v) == v.n # 0

\* a | b and a & b on values that are true, false, 1 or 0
BitOr(a, b) == JsNum(IF a.n # 0 \/ b.n # 0 THEN 1 ELSE 0)
BitAnd(a, b) == JsNum(IF a.n # 0 /\ b.n # 0 THEN 1 ELSE 0)

CheckSt(h, updates, calculates, inapplicable, invalid) ==
  [heap |-> h, log |-> <<>>,
   env |-> [updates |-> updates, calculates |-> calculates,
            inapplicable |-> inapplicable, invalid |-> invalid]]

Result(id, method, ret, by) ==
  [ev |-> "result", id |-> id, method |-> method, ret |-> ret, by |-> by]

\* comp.updateValue(flags) / comp.calculateValue(data, flags)
ChildOr(st, comp, method) ==
  IF ~IsNested(st.heap[comp])
  THEN [st |-> st,
        ret |-> IF method = "updateValue" THEN comp \in st.env.updates
                ELSE comp \in st.env.calculates]
  ELSE IF method = "updateValue" THEN updateValue(st, comp)
  ELSE calculateValue(st, comp)

\* reduce((changed, comp) => comp.method(...) || changed, changed) from child i on
orLoop(st, c, i, changed, method) ==
  IF i > Len(st.heap[c].components) THEN [st |-> st, ret |-> changed]
  ELSE OrNext(ChildOr(Logged(st, Ev(method, st.heap[c].components[i], c)),
                      st.heap[c].components[i], method),
              c, i, changed, method)

OrNext(r, c, i, changed, method) ==
  orLoop(Logged(r.st, Result(r.st.heap[c].components[i], method, r.ret, c)),
         c, i + 1, r.ret \/ changed, method)

updateValue(st, c) == orLoop(st, c, 1, FALSE, "updateValue")

\* the initial value of the reduce is super.calculateValue(data, flags)
calculateValue(st, c) == orLoop(st, c, 1, c \in st.env.calculates, "calculateValue")

\* this.getComponents().forEach((comp) => comp.checkConditions(data)) from child i on
condLoop(st, c, i) ==
  IF i > Len(st.heap[c].components) THEN st
  ELSE condLoop(IF IsNested(st.heap[st.heap[c].components[i]])
                THEN checkConditions(Logged(st, Ev("checkConditions",
                                                   st.heap[c].components[i], c)),
                                     st.heap[c].components[i])
                ELSE Logged(st, Ev("checkConditions", st.heap[c].components[i], c)),
                c, i + 1)

\* the children first, then super.checkConditions(data)
checkConditions(st, c) == Logged(condLoop(st, c, 1), Ev("superCheckConditions", c, c))

RECURSIVE checkLoop(_, _, _, _, _)
RECURSIVE AfterCalculate(_, _, _, _, _)
RECURSIVE AfterConditions(_, _, _, _, _, _)
RECURSIVE AfterValidity(_, _, _, _, _, _)

\* comp.checkConditions(data) of checkData on the child comp
ChildConditions(st, c, comp) ==
  IF IsNested(st.heap[comp])
  THEN checkConditions(Logged(st, Ev("checkConditions", comp, c)), comp)
  ELSE Logged(st, Ev("checkConditions", comp, c))

\* The forEach of checkData from child i on; acc = [changed, valid].
checkLoop(st, c, i, flags, acc) ==
  IF i > Len(st.heap[c].components) THEN [st |-> st, acc |-> acc]
  ELSE AfterCalculate(ChildOr(Logged(st, Ev("calculateValue", st.heap[c].components[i], c)),
                              st.heap[c].components[i], "calculateValue"),
                      c, i, flags, acc)

\* changed |= r.ret; comp.checkConditions(data)
AfterCalculate(r, c, i, flags, acc) ==
  AfterConditions(ChildConditions(Logged(r.st, Result(r.st.heap[c].components[i],
                                                     "calculateValue", r.ret, c)),
                                  c, r.st.heap[c].components[i]),
                  c, i, flags, [acc EXCEPT !.changed = BitOr(@, JsBool(r.ret))],
                  r.st.heap[c].components[i])

\* if (!flags.noValidate) valid &= comp.checkValidity(data)
AfterConditions(st, c, i, flags, acc, comp) ==
  IF flags.noValidate THEN checkLoop(st, c, i + 1, flags, acc)
  ELSE AfterValidity(ChildValid(Logged(st, [ev |-> "checkValidity", id |-> comp, by |-> c]),
                                c, comp, "checkValidity"),
                     c, i, flags, acc, comp)

AfterValidity(r, c, i, flags, acc, comp) ==
  checkLoop(r.st, c, i + 1, flags, [acc EXCEPT !.valid = BitAnd(@, JsBool(r.ret))])

\* A variant that fires the change notification whether or not anything changed.
MutFinish(r, c, flags) ==
  [st |-> Logged(r.st, Ev("triggerChange", c, c)), ret |-> r.acc.valid]

\* if (changed) this.triggerChange(flags); return valid
Finish(r, c, flags) ==
  [st |-> IF Truthy(r.acc.changed) THEN Logged(r.st, Ev("triggerChange", c, c)) ELSE r.st,
   ret |-> r.acc.valid]

\* checkData after this.updateValue({noUpdateEvent: true}) returned r.ret
AfterUpdate(r, c, flags) ==
  Finish(checkLoop(Logged(r.st, Result(c, "updateValue", r.ret, c)), c, 1, flags,
                   [changed |-> JsBool(r.ret), valid |-> JsBool(TRUE)]),
         c, flags)

checkData(st, c, flags) ==
  IF flags.noCheck THEN [st |-> st, ret |-> Undefined]
  ELSE AfterUpdate(updateValue(st, c), c, flags)

\* flags absent is flags with nothing set
Flags == [noCheck : BOOLEAN, noValidate : BOOLEAN]

CheckData ==
  /\ Ready
  /\ \E flags \in Flags, updates \in SUBSET Leaves,
        calculates \in SUBSET Below(heap, ROOT), invalid \in SUBSET Below(heap, ROOT),
        inapplicable \in SUBSET (Containers \ {ROOT}) :
       Done("checkData",
            [flags |-> flags, updates |-> updates, calculates |-> calculates,
             invalid |-> invalid, inapplicable |-> inapplicable],
            checkData(CheckSt(heap, updates, calculates, inapplicable, invalid), ROOT, flags))

InitCheck ==
  \E kids \in Forests(MaxNodesCheck, {Leaf("a", "textfield", FALSE, FALSE)}) :
    /\ KeysOf(kids) \subseteq {"a"}
    /\ InitWith(kids, NoOptions, <<>>)

NextCheck == BuildPlain \/ CheckData

SpecCheck == InitCheck /\ [][NextCheck]_vars

(***************************************************************************)
(* C16.  checkData with flags.noCheck calls nothing, fires no change       *)
(* notification and returns undefined.  Otherwise it calls updateValue,    *)
(* then for each direct child in collection order calculateValue, then     *)
(* checkConditions, then (unless flags.noValidate) checkValidity, before   *)
(* the next child; it fires the change notification exactly once if        *)
(* updateValue or a child's calculateValue reported a change and not at    *)
(* all otherwise; and what it returns is truthy exactly when every         *)
(* checkValidity it called returned true.                                  *)
(***************************************************************************)
\* The calls made on the direct children, as <<method, child>>.
DirectCalls(l) ==
  LET d == SelectSeq(l, LAMBDA e :
             /\ e.ev \in {"updateValue", "calculateValue", "checkConditions", "checkValidity"}
             /\ e.by = ROOT)
  IN [i \in 1..Len(d) |-> <<d[i].ev, d[i].id>>]

PerChild(noValidate) ==
  IF noValidate THEN <<"calculateValue", "checkConditions">>
  ELSE <<"calculateValue", "checkConditions", "checkValidity">>

\* updateValue on every child, then the calls of each child in turn.
ExpectedCalls(kids, noValidate) ==
  [i \in 1..Len(kids) |-> <<"updateValue", kids[i]>>]
  \o [j \in 1..(Len(kids) * Len(PerChild(noValidate))) |->
        <<PerChild(noValidate)[((j - 1) % Len(PerChild(noValidate))) + 1],
          kids[((j - 1) \div Len(PerChild(noValidate))) + 1]>>]

ReportedChange(l) ==
  \E i \in 1..Len(l) :
    /\ l[i].ev = "result"
    /\ l[i].by = ROOT
    /\ l[i].method = "calculateValue" \/ l[i].id = ROOT
    /\ l[i].ret

C16_CheckData ==
  op = "checkData" =>
    IF in.flags.noCheck
    THEN log = <<>> /\ out.ret = Undefined
    ELSE /\ DirectCalls(log) = ExpectedCalls(heap[ROOT].components, in.flags.noValidate)
         /\ log[1].ev \in {"updateValue", "result"}
         /\ Len(Events(log, "triggerChange")) = IF ReportedChange(log) THEN 1 ELSE 0
         /\ Truthy(out.ret) =
              (\A i \in 1..Len(log) :
                 (log[i].ev = "return" /\ log[i].id \in SeqToSet(heap[ROOT].components))
                   => log[i].ret)

\* Two children: only the second one's calculateValue reports a change and only
\* the first one's checkValidity fails; the notification is fired once and the
\* result is falsy.
C16_Witness ==
  /\ op = "checkData"
  /\ ~in.flags.noCheck
  /\ ~in.flags.noValidate
  /\ Len(heap[ROOT].components) = 2
  /\ in.updates = {}
  /\ in.calculates = {heap[ROOT].components[2]}
  /\ in.invalid = {heap[ROOT].components[1]}
  /\ Len(Events(log, "triggerChange")) = 1
  /\ out.ret = JsNum(0)

(***************************************************************************)
(* C17.  removeComponentByKey and removeComponentById return null in all   *)
(* cases, when the target was found and removed and when it was not found. *)
(***************************************************************************)
C17_AlwaysNull ==
  op \in {"removeComponentByKey", "removeComponentById"} => out.ret = "null"

(***************************************************************************)
(* createComponent as a call on the root, and the life of a tree: build,   *)
(* additions and removals.                                                 *)
(***************************************************************************)
\* createComponent(component, options, data, before): before is absent (NULL) or an
\* instance, in the collection of the root or not.
CreateComponent ==
  /\ Built
  /\ Len(heap) < MaxInstances
  /\ \E component \in AddSchemas, before \in {NULL} \cup (2..Len(heap)) :
       Done("createComponent", [component |-> component, before |-> before],
            createComponent(Start, ROOT, component, before))

InitCreate == \E kids \in Forests(MaxNodesAdd, TextLeaves) : InitWith(kids, NoOptions, <<>>)

NextCreate == BuildPlain \/ CreateComponent

SpecCreate == InitCreate /\ [][NextCreate]_vars

\* addComponent of a child that has an element and passes its condition
AddPlain ==
  /\ Built
  /\ Len(heap) < MaxInstances
  /\ \E component \in AddSchemas, before \in Befores, noAdd \in BOOLEAN :
       Done("addComponent",
            [component |-> component, before |-> before, noAdd |-> noAdd,
             noElement |-> {}, condFalse |-> {}],
            addComponent(Start, ROOT, component, before, noAdd))

\* removeComponent(component) of a child of the root
RemoveComponent ==
  /\ Built
  /\ \E component \in SeqToSet(heap[ROOT].components) :
       Done("removeComponent", [component |-> component],
            NoRet(removeComponent(Start, component, ROOT)))

InitLife == \E kids \in Forests(MaxNodesAdd, TextLeaves) : InitWith(kids, NoOptions, <<>>)

NextLife == BuildPlain \/ AddPlain \/ RemoveComponent

SpecLife == InitLife /\ [][NextLife]_vars

(***************************************************************************)
(* C18.  A child created through createComponent has its parent and its    *)
(* root set before its build begins and is inserted into the owner's       *)
(* collection only after its build has completed; after any sequence of    *)
(* build, addComponent and removeComponent, every instance in a            *)
(* container's collection has that container as parent, is built, and has  *)
(* the top container as root.                                              *)
(***************************************************************************)
\* The position of the event e in l, 0 when it is not there.
At(l, e) ==
  IF \E i \in 1..Len(l) : l[i] = e THEN CHOOSE i \in 1..Len(l) : l[i] = e ELSE 0

\* The events of the creation of x by c are in handshake order; the build event
\* carries the parent x had when its build began.
Handshake(l, x, c) ==
  /\ At(l, Ev("build", x, c)) > At(l, Ev("create", x, c))
  /\ At(l, Ev("built", x, c)) > At(l, Ev("build", x, c))
  /\ At(l, Ev("insert", x, c)) # 0 => At(l, Ev("insert", x, c)) > At(l, Ev("built", x, c))
  /\ \A i \in 1..Len(l) :
       (l[i].ev \in {"create", "build", "built", "insert"} /\ l[i].by = x)
         => At(l, Ev("build", x, c)) < i /\ i < At(l, Ev("built", x, c))

C19_InsertBefore ==
  (op = "createComponent" /\ ~in.component.internal) =>
    /\ Len(heap[ROOT].components) = Len(old[ROOT].components) + 1
    /\ out.ret \notin SeqToSet(old[ROOT].components)
    /\ RemoveId(heap[ROOT].components, out.ret) = old[ROOT].components
    /\ IF in.before \in SeqToSet(old[ROOT].components)
       THEN /\ heap[ROOT].components[Position(old, in.before)] = out.ret
            /\ heap[ROOT].components[Position(old, in.before) + 1] = in.before
       ELSE heap[ROOT].components[Len(heap[ROOT].components)] = out.ret

\* Insertion before the second of two children.
C19_Witness ==
  /\ op = "createComponent"
  /\ ~in.component.internal
  /\ Len(old[ROOT].components) = 2
  /\ in.before = old[ROOT].components[2]
  /\ heap[ROOT].components =
       <<old[ROOT].components[1], out.ret, old[ROOT].components[2]>>

====
